---- MODULE Spec2Model ----
(***************************************************************************)
(* Model of nsm_archiver (src/src/main.rs): the sequential crawl of the    *)
(* catalog (series -> games -> sheets) that fills an unbounded             *)
(* async_channel with one QueuedDownload per sheet, followed by a pool of  *)
(* THREAD_COUNT spawned tasks that drain the channel and download every    *)
(* sheet in the three SheetFormat values.                                  *)
(***************************************************************************)
EXTENDS Integers, Sequences, FiniteSets, Bags, TLC

(* ------------------------------ bounds --------------------------------- *)

\* Largest number of series anchors on the root page.
MaxSeries == 2

\* Largest number of game sections on one series page.
MaxGames == 2

\* Largest number of sheet rows in one game section.
MaxSheets == 2

\* Largest number of sheets on a site of several series and games.
MaxItems == 2

\* Largest number of calls of Sheet::download that fail in one run.
MaxFaults == 1

\* Bounds of the pages parsed on their own: nodes of a root page, top-level
\* elements of a series page, children of one of them, characters that
\* follow the prefix of an id attribute.
MaxNodes == 3

MaxSections == 2

MaxRows == 2

MaxIdLen == 3

(* --------------------------- program constants ------------------------- *)

THREAD_COUNT == 6

\* enum SheetFormat, in declaration order (the order SheetFormat::iter() yields).
SheetFormat == <<"PDF", "MID", "MUS">>

\* What a task holds while it has no QueuedDownload.
NoDownload == [path |-> <<>>, sheet |-> [name |-> "", id |-> 0]]

(* ------------------------------ the site ------------------------------- *)

\* Names as they appear (entity-decoded) on the pages, by document position.
SerieNames == <<"Mario", "Zelda", "Kirby", "Metroid">>

GameNames == <<"Kart: DS", "Kart/DS", "Party", "Golf">>

SheetNames == <<"Title", "Title?", "Credits", "Menu", "Boss", "Shop", "Ending", "Staff">>

\* The titles of a game section all of whose rows carry one title (a site
\* of one such game is among the sites below).
RepeatedTitles == [k \in 1..(MaxSheets + 1) |-> "Title"]

\* sanitize_filename_reader_friendly::sanitize on the names above: the
\* characters a file name may not hold are replaced, the rest is kept.
sanitize(name) ==
    CASE name = "Kart: DS" -> "Kart_ DS"
      [] name = "Kart/DS"  -> "Kart_DS"
      [] name = "Title?"   -> "Title_"
      [] OTHER             -> name

RECURSIVE SumSeq(_)
SumSeq(s) == IF s = <<>> THEN 0 ELSE Head(s) + SumSeq(Tail(s))

\* A series page as the numbers of sheet rows of its game sections; a game
\* section lists at least one sheet.
GameShapes == UNION {[1..g -> 1..MaxSheets] : g \in 0..MaxGames}

SheetsOnPage(page) == SumSeq(page)

RECURSIVE SheetsOnSite(_)
SheetsOnSite(shape) ==
    IF shape = <<>> THEN 0 ELSE SheetsOnPage(Head(shape)) + SheetsOnSite(Tail(shape))

\* The sites of several series and games: every arrangement within the bounds.
CrawlShapes ==
    {sh \in UNION {[1..s -> GameShapes] : s \in 0..MaxSeries} : SheetsOnSite(sh) <= MaxItems}

\* The sites of one game that lists up to one sheet more than there are tasks.
PoolShapes == {<<<<n>>>> : n \in 1..(THREAD_COUNT + 1)}

\* A site as the sequence of its series pages.
SiteShapes == CrawlShapes \cup PoolShapes

\* Number of sheet rows that precede game j of series i in crawl order.
SheetsBefore(shape, i, j) ==
    SheetsOnSite(SubSeq(shape, 1, i - 1)) + SumSeq(SubSeq(shape[i], 1, j - 1))

\* The site of a given shape whose sheet rows carry the given titles:
\* Sheet.id is the catalog's unique identifier.
SiteTitled(shape, titles) ==
    [i \in 1..Len(shape) |->
        [name  |-> SerieNames[i],
         games |-> [j \in 1..Len(shape[i]) |->
            [name   |-> GameNames[j],
             sheets |-> [k \in 1..shape[i][j] |->
                [name |-> titles[k],
                 id   |-> SheetsBefore(shape, i, j) + k]]]]]]

SiteOf(shape) == SiteTitled(shape, SheetNames)

\* Two arrangements of one piece carry the same title: on the one-game site
\* of as many sheets as there are tasks the last row repeats the first title.
PoolTitles(n) ==
    IF n = THREAD_COUNT THEN [SheetNames EXCEPT ![n] = SheetNames[1]] ELSE SheetNames

Sites ==
    {SiteOf(sh) : sh \in CrawlShapes}
        \cup {SiteTitled(<<<<n>>>>, RepeatedTitles) : n \in 2..MaxSheets}
        \cup {SiteTitled(sh, PoolTitles(sh[1][1])) : sh \in PoolShapes}

\* All Sheet records listed on a site, and their identifiers.
SheetsOf(st) ==
    {st[i].games[j].sheets[k] :
        <<i, j, k>> \in {t \in (DOMAIN st) \X (1..MaxGames) \X (1..(MaxSheets + THREAD_COUNT + 1)) :
                            /\ t[2] \in DOMAIN st[t[1]].games
                            /\ t[3] \in DOMAIN st[t[1]].games[t[2]].sheets}}

SheetIds(st) == {sh.id : sh \in SheetsOf(st)}

(* ------------------------------ the pages ------------------------------ *)

\* Text is kept as a sequence of pieces: an href as its path prefix, its slug
\* and what follows; an id attribute as its characters.
Host == "https://www.ninsheetmusic.org"

SeriesPrefix == "/browse/series/"

SerieSlugs == <<"mario", "zelda", "kirby", "metroid">>

\* The href of a tag that has none.
NoHref == <<>>

\* A node of a parsed page that is a tag, and one that is not (text, comment).
Tag(name, href, text) == [node |-> "tag", name |-> name, href |-> href, text |-> text]

Raw(text) == [node |-> "raw", name |-> "", href |-> NoHref, text |-> text]

\* str::starts_with and str::contains on text kept in pieces.
starts_with(str, prefix) == Len(str) > 0 /\ str[1] = prefix

contains(str, piece) == \E k \in DOMAIN str : str[k] = piece

\* Mutant of IsSeriesLink: the test for '#' is left out.
IsSeriesLink_KeepFragments(node) ==
    /\ node.node = "tag"
    /\ node.name = "a"
    /\ node.href # NoHref
    /\ starts_with(node.href, SeriesPrefix)

\* The closure fetch_series filters dom.nodes() with.
IsSeriesLink(node) ==
    /\ node.node = "tag"
    /\ node.name = "a"
    /\ node.href # NoHref
    /\ starts_with(node.href, SeriesPrefix)
    /\ ~contains(node.href, "#")

\* Serie::parse for an anchor of the root page.
SerieParse(a_tag) == [name |-> a_tag.text, url |-> <<Host>> \o a_tag.href, games |-> <<>>]

\* fetch_series on the nodes of the root page: one Serie per node the
\* filter keeps, in document order.
fetch_series(nodes) ==
    LET link_tags == SelectSeq(nodes, IsSeriesLink)
    IN  [k \in DOMAIN link_tags |-> SerieParse(link_tags[k])]

\* The root page of a site: its series anchors in order, among the page's
\* other nodes.
RootPage(st) ==
    <<Raw("Browse"), Tag("a", <<"/browse/games/">>, "Games"), Tag("a", NoHref, "Menu")>>
        \o [i \in DOMAIN st |-> Tag("a", <<SeriesPrefix, SerieSlugs[i]>>, st[i].name)]
        \o <<Tag("a", <<SeriesPrefix, "#", "top">>, "Top"), Tag("link", <<SeriesPrefix, "feed">>, "")>>

\* The position on the site of the page a Serie's url names.
PageOf(url) == CHOOSE i \in DOMAIN SerieSlugs : SerieSlugs[i] = url[3]

\* The decimal digits, and the characters of a number's decimal form.
DigitChars == <<"0", "1", "2", "3", "4", "5", "6", "7", "8", "9">>

IsDigit(c) == \E d \in DOMAIN DigitChars : DigitChars[d] = c

DigitOf(c) == (CHOOSE d \in DOMAIN DigitChars : DigitChars[d] = c) - 1

RECURSIVE Decimal(_)
Decimal(n) ==
    IF n < 10 THEN <<DigitChars[n + 1]>> ELSE Decimal(n \div 10) \o <<DigitChars[(n % 10) + 1]>>

\* The range of i32.
I32_MAX == 2147483647

I32_MIN == (-2147483647) - 1

\* What a parser returns on text it rejects.
ParseErr == [ok |-> FALSE, value |-> 0]

\* The digit loop of <i32 as FromStr>::from_str: checked_mul by 10, then
\* checked_add of the digit, or checked_sub after a minus sign.
RECURSIVE Accumulate(_, _, _)
Accumulate(digits, acc, negative) ==
    IF digits = <<>> THEN [ok |-> TRUE, value |-> acc]
    ELSE IF ~IsDigit(Head(digits)) THEN ParseErr
    ELSE IF acc > I32_MAX \div 10 \/ acc < -(I32_MAX \div 10) THEN ParseErr
    ELSE LET d == DigitOf(Head(digits))
             m == acc * 10
         IN  IF negative
             THEN IF m < I32_MIN + d THEN ParseErr ELSE Accumulate(Tail(digits), m - d, negative)
             ELSE IF m > I32_MAX - d THEN ParseErr ELSE Accumulate(Tail(digits), m + d, negative)

\* str::parse::<i32>(): an optional sign, then at least one digit.
from_str(chars) ==
    LET signed == chars # <<>> /\ chars[1] \in {"+", "-"}
        digits == IF signed THEN Tail(chars) ELSE chars
    IN  IF digits = <<>> THEN ParseErr ELSE Accumulate(digits, 0, signed /\ chars[1] = "-")

\* The prefix of the id attribute of a sheet row, and its length (the 5 of [5..]).
IdPrefix == <<"s", "h", "e", "e", "t">>

IdPrefixLen == 5

\* A sheet row of a series page and another child of a game section.
SheetRow(id, title) == [name |-> "li", class |-> "tableList-row--sheet", id |-> id, title |-> title]

\* The selector li.tableList-row--sheet.
IsSheetRow(el) == el.name = "li" /\ el.class = "tableList-row--sheet"

\* The remainder Sheet::parse hands to the number parser.
IdRemainder(li) == SubSeq(li.id, IdPrefixLen + 1, Len(li.id))

\* Sheet::parse panics: the slice [5..] of a shorter attribute (or the unwrap
\* of a missing one), or the unwrap of the parse error.
SheetPanics(li) == Len(li.id) < IdPrefixLen \/ ~from_str(IdRemainder(li)).ok

\* Sheet::parse (the arrangers are read but never used by main).
SheetParse(li) == [name |-> li.title, id |-> from_str(IdRemainder(li)).value]

\* A top-level element of a series page: its class, the texts of the h3
\* elements below it and its children.
Section(class, h3, children) == [class |-> class, h3 |-> h3, children |-> children]

\* Mutant of IsGame: every top-level element is taken for a game section.
IsGame_Any(el) == TRUE

\* dom.get_elements_by_class_name("game")
IsGame(el) == el.class = "game"

\* Game::parse panics: no h3 below the section, or a sheet row does.
GamePanics(section) ==
    \/ section.h3 = <<>>
    \/ \E k \in DOMAIN section.children :
          IsSheetRow(section.children[k]) /\ SheetPanics(section.children[k])

\* Game::parse: the name is the text of the first h3, the sheets are the
\* rows the selector finds below the section (the system is read but never
\* used by main).
GameParse(section) ==
    LET rows == SelectSeq(section.children, IsSheetRow)
    IN  [name |-> section.h3[1], sheets |-> [k \in DOMAIN rows |-> SheetParse(rows[k])]]

\* Serie::populate_games panics on this page.
PopulatePanics(page) == \E k \in DOMAIN page : IsGame(page[k]) /\ GamePanics(page[k])

\* Serie::populate_games on the elements of the page at serie.url.
populate_games(serie, page) ==
    LET game_sections == SelectSeq(page, IsGame)
    IN  [serie EXCEPT !.games = [k \in DOMAIN game_sections |-> GameParse(game_sections[k])]]

\* The page of series i of a site: a game section per game, a row per sheet,
\* among the page's other elements.
SeriesPage(st, i) ==
    <<Section("header", <<st[i].name>>, <<>>)>>
        \o [j \in DOMAIN st[i].games |->
              Section("game", <<st[i].games[j].name>>,
                  <<[name |-> "li", class |-> "tableList-row--header", id |-> <<>>, title |-> "Title"]>>
                      \o [k \in DOMAIN st[i].games[j].sheets |->
                            SheetRow(IdPrefix \o Decimal(st[i].games[j].sheets[k].id),
                                     st[i].games[j].sheets[k].name)])]
        \o <<Section("footer", <<>>, <<>>)>>

(* ------------------------------ the state ------------------------------ *)

VARIABLES
    site,        \* the catalog served by the web site (never changes)
    mainPc,      \* where main() is
    series,      \* main's `series`: Vec<Serie>
    serieIdx,    \* position of `serie` in `for serie in series.iter_mut()`
    gameIdx,     \* position of `game` in `for game in &serie.games`
    queue,       \* the messages held by the channel (tx, rx)
    txAlive,     \* TRUE while the Sender `tx` has not been dropped
    tasks,       \* number of tasks pushed on `tasks`
    pool,        \* the spawned tasks, as the bag of their states: position,
                 \* queued_dl and format (the tasks carry no identity)
    exitCode,    \* the exit status of the process, "none" while it runs
    dirs,        \* directories created by fs::create_dir_all
    enqueued,    \* per sheet id: number of tx.send calls made for it
    dequeued,    \* per sheet id: number of rx.recv calls that returned it
    attempts,    \* per sheet id: the formats Sheet::download was called with
    files,       \* the files written in full: file path |-> id of the sheet
                 \* whose bytes the file holds
    reported,    \* per sheet id: number of "+ Downloaded .. in all formats." lines
    crawlError,  \* the failure main() panicked on, "none" if it has not
    faults,      \* number of calls of Sheet::download that have failed
    fetched,     \* per page (0: the root page, i: the page of serie url i):
                 \* number of GET requests made for it
    doc,         \* a document handed to a parser on its own (see ParseSpec)
    out          \* what the parser made of doc

vars == <<site, mainPc, series, serieIdx, gameIdx, queue, txAlive, tasks, pool,
          exitCode, dirs, enqueued, dequeued, attempts, files, reported, crawlError, faults,
          fetched, doc, out>>

\* The parsers' own input and output: main() and the tasks leave them alone.
parseVars == <<doc, out>>

\* No document, and no result yet.
NoDoc == [kind |-> "none", body |-> <<>>]

NoOut == [status |-> "none", value |-> <<>>]

crawlVars == <<series, serieIdx, gameIdx, dirs, enqueued, crawlError>>

poolVars == <<pool, dequeued, attempts, files, reported, faults>>

\* main() has not started; nothing has been requested, sent or received.
NotStarted ==
    /\ mainPc = "fetch_series"
    /\ series = <<>>
    /\ serieIdx = 0
    /\ gameIdx = 0
    /\ queue = <<>>
    /\ txAlive = TRUE
    /\ tasks = 0
    /\ pool = EmptyBag
    /\ exitCode = "none"
    /\ enqueued = [id \in SheetIds(site) |-> 0]
    /\ dequeued = [id \in SheetIds(site) |-> 0]
    /\ attempts = [id \in SheetIds(site) |-> <<>>]
    /\ reported = [id \in SheetIds(site) |-> 0]
    /\ crawlError = "none"
    /\ faults = 0
    /\ fetched = [page \in {0} \cup DOMAIN site |-> 0]

\* A run that starts with no ./downloads tree.
Init ==
    /\ site \in Sites
    /\ dirs = {}
    /\ files = [p \in {} |-> 0]
    /\ doc = NoDoc
    /\ out = NoOut
    /\ NotStarted

(* ------------------------------- main() -------------------------------- *)

\* Outcomes of an HTTP exchange followed by the parse of its body.
FetchOutcomes == {"ok", "network_error", "parse_panic"}

\* Outcomes of a file-system call.
IoOutcomes == {"ok", "io_panic"}

\* Mutant of MainPanics: the failure is swallowed and main goes on to the pool.
MainPanics_Continue ==
    /\ mainPc' = "spawn"
    /\ UNCHANGED <<exitCode, txAlive>>

\* .expect()/.unwrap() on a failure in main: the process panics.
MainPanics ==
    /\ mainPc' = "panicked"
    /\ exitCode' = "101"
    /\ txAlive' = FALSE

\* The position main() is at once `serie`'s games are all handled.
AfterSerie(i) ==
    IF i < Len(series)
    THEN /\ mainPc' = "populate_games"
         /\ serieIdx' = i + 1
         /\ gameIdx' = 0
    ELSE /\ mainPc' = "spawn"
         /\ serieIdx' = i
         /\ gameIdx' = 0

\* let mut series = fetch_series(&client).await.expect(..)
FetchSeries ==
    /\ mainPc = "fetch_series"
    /\ \E outcome \in FetchOutcomes :
          IF outcome = "ok"
          THEN /\ series' = fetch_series(RootPage(site))
               /\ IF Len(series') > 0
                  THEN /\ mainPc' = "populate_games"
                       /\ serieIdx' = 1
                  ELSE /\ mainPc' = "spawn"
                       /\ serieIdx' = 0
               /\ UNCHANGED <<exitCode, txAlive, crawlError>>
          ELSE /\ MainPanics
               /\ crawlError' = outcome
               /\ UNCHANGED <<series, serieIdx>>
    /\ fetched' = [fetched EXCEPT ![0] = @ + 1]
    /\ UNCHANGED <<site, gameIdx, queue, tasks, dirs, enqueued, poolVars, parseVars>>

\* serie.populate_games(&client).await.expect(..)
PopulateGames ==
    /\ mainPc = "populate_games"
    /\ \E outcome \in FetchOutcomes :
          IF outcome = "ok"
          THEN /\ series' = [series EXCEPT
                              ![serieIdx] = populate_games(@, SeriesPage(site, PageOf(@.url)))]
               /\ IF Len(series'[serieIdx].games) > 0
                  THEN /\ mainPc' = "create_dir"
                       /\ gameIdx' = 1
                       /\ UNCHANGED serieIdx
                  ELSE AfterSerie(serieIdx)
               /\ UNCHANGED <<exitCode, txAlive, crawlError>>
          ELSE /\ MainPanics
               /\ crawlError' = outcome
               /\ UNCHANGED <<series, serieIdx, gameIdx>>
    /\ fetched' = [fetched EXCEPT ![PageOf(series[serieIdx].url)] = @ + 1]
    /\ UNCHANGED <<site, queue, tasks, dirs, enqueued, poolVars, parseVars>>

\* Mutant of folder_path: the folder is that of the serie's first game.
folder_path_FirstGame(serie, game) ==
    <<"downloads", sanitize(serie.name), sanitize(serie.games[1].name)>>

\* format!("./downloads/{}/{}/", sanitize(&serie.name), sanitize(&game.name))
folder_path(serie, game) == <<"downloads", sanitize(serie.name), sanitize(game.name)>>

\* QueuedDownload { path: folder_path.to_owned(), sheet: sheet.clone() }
QueuedDownload(path, sheet) == [path |-> path, sheet |-> sheet]

\* The messages sent for one game: one per sheet, in document order.
GameDownloads(serie, game) ==
    [k \in DOMAIN game.sheets |-> QueuedDownload(folder_path(serie, game), game.sheets[k])]

\* Number of messages in q that carry sheet id.
CountId(q, id) == Cardinality({k \in DOMAIN q : q[k].sheet.id = id})

\* Body of `for game in &serie.games`: create the folder, send every sheet.
EnqueueGame ==
    /\ mainPc = "create_dir"
    /\ LET serie == series[serieIdx]
           game  == serie.games[gameIdx]
           sent  == GameDownloads(serie, game)
       IN \E outcome \in IoOutcomes :
          IF outcome = "ok"
          THEN /\ dirs' = dirs \cup {folder_path(serie, game)}
               /\ queue' = queue \o sent
               /\ enqueued' = [id \in DOMAIN enqueued |-> enqueued[id] + CountId(sent, id)]
               /\ IF gameIdx < Len(serie.games)
                  THEN /\ gameIdx' = gameIdx + 1
                       /\ UNCHANGED <<mainPc, serieIdx>>
                  ELSE AfterSerie(serieIdx)
               /\ UNCHANGED <<exitCode, txAlive, crawlError>>
          ELSE /\ MainPanics
               /\ crawlError' = outcome
               /\ UNCHANGED <<dirs, queue, enqueued, serieIdx, gameIdx>>
    /\ UNCHANGED <<site, series, tasks, fetched, poolVars, parseVars>>

\* A task about to call rx.recv(): at its start and after each loop turn.
Idle == [pc |-> "recv", queued_dl |-> NoDownload, format |-> 0]

\* A task whose future has completed: "done" (it returned Ok) or "failed"
\* (it returned Err or panicked); its locals are dropped.
Over(how) == [pc |-> how, queued_dl |-> NoDownload, format |-> 0]

\* The pool after one task in state t has moved to state u.
Moved(t, u) == (pool (-) SetToBag({t})) (+) SetToBag({u})

\* Mutant of Spawn: the tasks are spawned while main is still crawling.
Spawn_DuringCrawl ==
    /\ mainPc \in {"populate_games", "create_dir", "spawn"}
    /\ tasks < THREAD_COUNT
    /\ tasks' = tasks + 1
    /\ pool' = pool (+) SetToBag({Idle})
    /\ mainPc' = IF mainPc = "spawn" /\ tasks + 1 = THREAD_COUNT THEN "join" ELSE mainPc
    /\ UNCHANGED <<site, queue, txAlive, exitCode, dequeued, attempts, files, reported, faults,
                   fetched, crawlVars, parseVars>>

\* Body of `for _ in 0..THREAD_COUNT`: tokio::spawn one task, push its handle.
Spawn ==
    /\ mainPc = "spawn"
    /\ tasks < THREAD_COUNT
    /\ tasks' = tasks + 1
    /\ pool' = pool (+) SetToBag({Idle})
    /\ mainPc' = IF tasks + 1 = THREAD_COUNT THEN "join" ELSE "spawn"
    /\ UNCHANGED <<site, queue, txAlive, exitCode, dequeued, attempts, files, reported, faults,
                   fetched, crawlVars, parseVars>>

\* A task is over once its future has returned or panicked.
Terminated(t) == t.pc \in {"done", "failed"}

\* join_all(tasks).await, then main returns: the results are discarded.
JoinAll ==
    /\ mainPc = "join"
    /\ \A t \in BagToSet(pool) : Terminated(t)
    /\ mainPc' = "exited"
    /\ exitCode' = "0"
    /\ txAlive' = FALSE
    /\ UNCHANGED <<site, queue, tasks, fetched, crawlVars, poolVars, parseVars>>

(* ----------------------------- the workers ----------------------------- *)

\* The channel is closed once every Sender has been dropped.
Closed == ~txAlive

\* rx.is_empty()
is_empty(q) == q = <<>>

\* Mutant of AfterRecv: the message is handed out but stays in the channel.
AfterRecv_Keep(q) == q

\* What rx.recv() leaves in the channel when it returns the first message.
AfterRecv(q) == Tail(q)

\* `while let Ok(queued_dl) = rx.recv().await`: a message if there is one,
\* Err (the loop ends, the task returns Ok) if the channel is closed and empty,
\* and otherwise the task stays suspended.
Recv(t) ==
    /\ t.pc = "recv"
    /\ IF ~is_empty(queue)
       THEN /\ pool' = Moved(t, [pc |-> "download", queued_dl |-> Head(queue), format |-> 1])
            /\ queue' = AfterRecv(queue)
            /\ dequeued' = [dequeued EXCEPT ![Head(queue).sheet.id] = @ + 1]
       ELSE /\ Closed
            /\ pool' = Moved(t, Over("done"))
            /\ UNCHANGED <<queue, dequeued>>
    /\ UNCHANGED <<site, mainPc, txAlive, tasks, exitCode, attempts, files, reported, faults,
                   fetched, crawlVars, parseVars>>

\* Outcomes of Sheet::download: Ok, Err(reqwest::Error), or a panic in
\* File::create / write_all.
DownloadOutcomes == {"ok", "network_error", "io_panic"}

\* Mutant of AfterDownload: the task breaks out of the loop after every item.
AfterDownload_BreakAlways(t, q) ==
    IF t.format < Len(SheetFormat)
    THEN [t EXCEPT !.format = t.format + 1]
    ELSE Over("done")

\* Mutant of AfterDownload: with messages waiting, the task goes back to
\* rx.recv() as soon as one format is done.
AfterDownload_RecvEarly(t, q) ==
    IF is_empty(q)
    THEN IF t.format < Len(SheetFormat) THEN [t EXCEPT !.format = t.format + 1] ELSE Over("done")
    ELSE Idle

\* Mutant of AfterDownload: the last format of SheetFormat::iter() is skipped.
AfterDownload_SkipLast(t, q) ==
    IF t.format < Len(SheetFormat) - 1
    THEN [t EXCEPT !.format = t.format + 1]
    ELSE IF is_empty(q) THEN Over("done") ELSE Idle

\* The task after download(format) returned Ok.  After a format that is not
\* the last of SheetFormat::iter() it downloads the next one.  After the last
\* one it prints the "+ Downloaded" line and reads rx.is_empty() (there is no
\* await between the two): it breaks out of the loop if the channel is empty
\* and calls rx.recv() again if not.
AfterDownload(t, q) ==
    IF t.format < Len(SheetFormat)
    THEN [t EXCEPT !.format = t.format + 1]
    ELSE IF is_empty(q) THEN Over("done") ELSE Idle

\* format.to_string().to_lowercase()
to_lowercase(format) ==
    CASE format = "PDF" -> "pdf"
      [] format = "MID" -> "mid"
      [] format = "MUS" -> "mus"

\* folder_path.join(format!("{}.{}", sanitize(&self.name), <format in lowercase>))
file_path(dl, format) ==
    [dir |-> dl.path, file |-> <<sanitize(dl.sheet.name), to_lowercase(format)>>]

\* Mutant of Written: a file that exists is kept and the bytes go to a new
\* file beside it.
Written_Renaming(fs, path, id) ==
    LET to == IF path \in DOMAIN fs
              THEN [path EXCEPT !.file = <<path.file[1], "1", path.file[2]>>]
              ELSE path
    IN  [p \in DOMAIN fs \cup {to} |-> IF p = to THEN id ELSE fs[p]]

\* File::create(path) and write_all(&response): the file holds the sheet's bytes.
Written(fs, path, id) == [p \in DOMAIN fs \cup {path} |-> IF p = path THEN id ELSE fs[p]]

\* Mutant of Failed: the failure of one task takes every running task down.
Failed_AbortsPool(t) ==
    LET over == BagCardinality([u \in {v \in BagToSet(pool) : v.pc = "done"} |-> pool[u]])
    IN  [u \in {Over("failed")} |-> BagCardinality(pool) - over]
            (+) [u \in {v \in {Over("done")} : over > 0} |-> over]

\* Mutant of Failed: a fresh task takes the place of the one that failed.
Failed_Respawn(t) == Moved(t, Over("failed")) (+) SetToBag({Idle})

\* Mutant of Failed: the task stays where it is and requests the format again.
Failed_Retry(t) == pool

\* The pool after download returned Err (`?` returns it from the task) or
\* panicked: that task is over, the others are not touched.
Failed(t) == Moved(t, Over("failed"))

\* One turn of `for format in SheetFormat::iter()`:
\* queued_dl.sheet.download(&queued_dl.path, format, &client).await?, and
\* after the last format the rest of the loop body (lines 189-193).
Download(t) ==
    /\ t.pc = "download"
    /\ attempts' = [attempts EXCEPT ![t.queued_dl.sheet.id] = Append(@, SheetFormat[t.format])]
    /\ \E outcome \in DownloadOutcomes :
          IF outcome = "ok"
          THEN /\ pool' = Moved(t, AfterDownload(t, queue))
               /\ files' = Written(files, file_path(t.queued_dl, SheetFormat[t.format]),
                                   t.queued_dl.sheet.id)
               /\ reported' = IF AfterDownload(t, queue).pc # "download"
                               THEN [reported EXCEPT ![t.queued_dl.sheet.id] = @ + 1]
                               ELSE reported
               /\ UNCHANGED faults
          ELSE /\ faults < MaxFaults
               /\ faults' = faults + 1
               /\ pool' = Failed(t)
               /\ UNCHANGED <<files, reported>>
    /\ UNCHANGED <<site, mainPc, queue, txAlive, tasks, exitCode, dequeued, fetched, crawlVars,
                   parseVars>>

(* --------------------------- the specification ------------------------- *)

RecvStep == \E t \in BagToSet(pool) : Recv(t)

DownloadStep == \E t \in BagToSet(pool) : Download(t)

WorkerNext == RecvStep \/ DownloadStep

MainNext == FetchSeries \/ PopulateGames \/ EnqueueGame \/ Spawn \/ JoinAll

Next == MainNext \/ WorkerNext

Spec == Init /\ [][Next]_vars

(* ------------------------- shared vocabulary --------------------------- *)

\* The tasks of the pool, each with its number of copies in the bag.
Tasks == BagToSet(pool)

\* The crawl is over: main() has left `for serie in series.iter_mut()`.
CrawlDone == mainPc \in {"spawn", "join", "exited"}

\* join_all has every handle and every task is over.
PoolCompleted == tasks = THREAD_COUNT /\ \A t \in Tasks : Terminated(t)

\* A task suspended in rx.recv(): nothing to receive, and no Err to come.
Suspended(t) == t.pc = "recv" /\ is_empty(queue) /\ ~Closed

\* Task t has received the QueuedDownload of sheet id and is working on it.
Holds(t, id) == t.pc = "download" /\ t.queued_dl.sheet.id = id

\* Number of tasks that hold the QueuedDownload of sheet id.
NumHolding(id) == BagCardinality([t \in {u \in Tasks : Holds(u, id)} |-> pool[t]])

(* ------------------------------- C1 ------------------------------------ *)

\* C1: once the crawl has enqueued everything, every worker terminates and
\* join_all returns; no worker stays blocked forever in recv on an empty
\* queue.  Stated on finite runs: the program never comes to a halt (no step
\* of main or of any task left) while a task is suspended in recv.
C1_PoolTerminates == \A t \in Tasks : Suspended(t) => ENABLED Next

(* ------------------------------- C2 ------------------------------------ *)

\* C2: each enqueued work-item is dequeued by at most one worker: no sheet
\* id is returned by recv twice, held by two tasks at once, or downloaded
\* twice in the same format.
C2_NoDuplicateDelivery ==
    \A id \in DOMAIN dequeued :
        /\ dequeued[id] <= 1
        /\ NumHolding(id) <= dequeued[id]
        /\ \A a, b \in DOMAIN attempts[id] : attempts[id][a] = attempts[id][b] => a = b

\* Witness of C2: two tasks hold different sheets at the same time while a
\* third sheet has already been downloaded in all formats.
C2_Witness ==
    /\ \E t, u \in Tasks :
          /\ t.pc = "download" /\ u.pc = "download"
          /\ t.queued_dl.sheet.id # u.queued_dl.sheet.id
    /\ \E id \in DOMAIN reported : reported[id] = 1

(* ------------------------------- C3 ------------------------------------ *)

FinishedWith(id) == dequeued[id] >= 1 /\ \A t \in Tasks : ~Holds(t, id)

IsPrefix(s, full) == Len(s) <= Len(full) /\ \A k \in DOMAIN s : s[k] = full[k]

\* C4 as claimed: every dequeued work-item has exactly the 3 downloads PDF,
\* MID, MUS attempted by the time its worker is finished with it.
C4_ThreeFormatsPerItem ==
    \A id \in DOMAIN attempts : FinishedWith(id) => attempts[id] = SheetFormat

\* C4 as amended: the attempts of a sheet are always the first formats of
\* PDF, MID, MUS in that order, never more than 3; a sheet that a worker
\* finishes without a download failure has all 3; a sheet whose download
\* failed has the formats up to the failing one (at least 1) and its worker
\* has ended.
C4_ThreeFormatsUnlessFailed ==
    \A id \in DOMAIN attempts :
        /\ IsPrefix(attempts[id], SheetFormat)
        /\ dequeued[id] = 0 => attempts[id] = <<>>
        /\ reported[id] >= 1 => attempts[id] = SheetFormat /\ FinishedWith(id)
        /\ (FinishedWith(id) /\ reported[id] = 0) =>
              /\ Len(attempts[id]) >= 1
              /\ \E t \in Tasks : t.pc = "failed"

\* Witness of C4: one sheet was processed in all three formats, another was
\* given up after its second format failed.
C4_Witness ==
    \E a, b \in DOMAIN attempts :
        /\ FinishedWith(a) /\ reported[a] = 1 /\ attempts[a] = SheetFormat
        /\ FinishedWith(b) /\ reported[b] = 0 /\ attempts[b] = <<"PDF", "MID">>

(* ------------------------------- C5 ------------------------------------ *)

\* C5: once the crawler has enqueued everything the channel is closed, and a
\* task only returns normally on recv's closed-and-empty signal.
C5_QueueClosedAfterCrawl ==
    /\ mainPc \in {"spawn", "join"} => Closed
    /\ \A t \in Tasks : t.pc = "done" => Closed

(* ------------------------------- C6 ------------------------------------ *)

\* A task exists, or a message was received, or a download was requested.
WorkStarted ==
    \/ tasks >= 1
    \/ pool # EmptyBag
    \/ \E id \in DOMAIN dequeued : dequeued[id] >= 1 \/ attempts[id] # <<>>

\* Every sheet listed on the site has been sent on the channel.
AllEnqueued == \A sh \in SheetsOf(site) : enqueued[sh.id] >= 1

\* C6: no task dequeues or downloads before the crawl has completed for every
\* series and every work-item is enqueued; once the first task is spawned
\* nothing is enqueued any more, so an empty queue stays empty.
C6_PhaseOrdering ==
    /\ [](WorkStarted => CrawlDone /\ AllEnqueued)
    /\ [][tasks >= 1 => /\ enqueued' = enqueued
                        /\ Len(queue') <= Len(queue)
                        /\ is_empty(queue) => is_empty(queue')]_vars

\* Witness of C6: the first task is already downloading while main has not
\* yet spawned the others, and messages are still queued.
C6_Witness ==
    /\ mainPc = "spawn"
    /\ tasks = 1
    /\ \E t \in Tasks : t.pc = "download"
    /\ ~is_empty(queue)

(* ------------------------------- C7 ------------------------------------ *)

\* C7: when the crawl has completed, the queue holds exactly one message per
\* sheet of the site, each sent once, with the folder of its own serie and game.
C7_OneItemPerSheet ==
    (mainPc = "spawn" /\ tasks = 0) =>
        /\ Len(queue) = Cardinality(SheetsOf(site))
        /\ \A i \in DOMAIN site : \A j \in DOMAIN site[i].games :
              \A k \in DOMAIN site[i].games[j].sheets :
                 LET sh == site[i].games[j].sheets[k]
                     at == {q \in DOMAIN queue : queue[q].sheet = sh}
                 IN  /\ enqueued[sh.id] = 1
                     /\ Cardinality(at) = 1
                     /\ \A q \in at : queue[q].path =
                           <<"downloads", sanitize(site[i].name), sanitize(site[i].games[j].name)>>

\* Witness of C7: the crawl has completed on a site whose sheets lie in two
\* games of one serie.
C7_Witness ==
    /\ mainPc = "spawn" /\ tasks = 0
    /\ Len(queue) = 2
    /\ queue[1].path[2] = queue[2].path[2]
    /\ queue[1].path[3] # queue[2].path[3]

(* ------------------------------- C8 ------------------------------------ *)

\* C8: a failure to fetch or parse the root page or a series page (or to
\* create a folder) aborts the run in an error state: no task is spawned, no
\* message is dequeued, no sheet is requested, no file is written.
C8_CrawlFailureIsFatal ==
    crawlError # "none" =>
        /\ mainPc = "panicked"
        /\ exitCode = "101"
        /\ tasks = 0 /\ pool = EmptyBag
        /\ \A id \in DOMAIN dequeued : dequeued[id] = 0 /\ attempts[id] = <<>>
        /\ DOMAIN files = {}

\* Witness of C8: the page of the second serie fails after the sheets of the
\* first were enqueued.
C8_Witness ==
    /\ crawlError \in {"network_error", "parse_panic"}
    /\ serieIdx = 2
    /\ ~is_empty(queue)

(* ------------------------------- C9 ------------------------------------ *)

\* C9: a failed download ends the task it happens in and no other: the other
\* tasks and the queue are as they were, and a message once received never
\* is in the queue again.
C9_FailureIsolation ==
    /\ [][faults' > faults =>
            /\ \E t \in Tasks :
                  /\ t.pc = "download"
                  /\ pool' = (pool (-) SetToBag({t})) (+) SetToBag({Over("failed")})
            /\ queue' = queue
            /\ enqueued' = enqueued]_vars
    /\ [](\A id \in DOMAIN dequeued : dequeued[id] >= 1 => CountId(queue, id) = 0)

\* Witness of C9: one task has failed while another is downloading and
\* sheets are still queued.
C9_Witness ==
    /\ \E t \in Tasks : t.pc = "failed"
    /\ \E t \in Tasks : t.pc = "download"
    /\ \E t \in Tasks : t.pc = "recv"
    /\ ~is_empty(queue)

(* ------------------------------- C10 ----------------------------------- *)

\* C10: the exit status is zero only if every sheet of the site was downloaded
\* in all three formats; a failure in the crawl or in a task makes it non-zero.
C10_ExitZeroOnlyOnFullCompletion ==
    exitCode = "0" =>
        /\ crawlError = "none"
        /\ \A t \in Tasks : t.pc # "failed"
        /\ \A sh \in SheetsOf(site) : reported[sh.id] >= 1

(* ------------------------------- C11 ----------------------------------- *)

\* C11: within one run every (sheet, format) download is requested at most
\* once, and the root page and every series page are fetched at most once;
\* in particular a request that failed is not made again.
C11_NoRetry ==
    /\ \A id \in DOMAIN attempts :
          /\ Len(attempts[id]) <= Len(SheetFormat)
          /\ \A k \in DOMAIN attempts[id] :
                \A l \in 1..(k - 1) : attempts[id][l] # attempts[id][k]
    /\ \A page \in DOMAIN fetched : fetched[page] <= 1

\* Witness of C11: a download has failed, its task is over, and other tasks
\* have since finished sheets and are still at work.
C11_Witness ==
    /\ faults = 1
    /\ \E t \in Tasks : t.pc = "failed"
    /\ \E t \in Tasks : t.pc = "download"
    /\ \E id \in DOMAIN reported : reported[id] = 1
    /\ \A page \in DOMAIN fetched : fetched[page] = 1

(* ------------------------------- C12 ----------------------------------- *)

\* The work-items main() sends for a site: one per sheet row.
WorkItems(st) ==
    {QueuedDownload(folder_path(st[t[1]], st[t[1]].games[t[2]]), st[t[1]].games[t[2]].sheets[t[3]]) :
        t \in {u \in (DOMAIN st) \X (1..(MaxGames + 1)) \X (1..(MaxSheets + THREAD_COUNT + 1)) :
                  /\ u[2] \in DOMAIN st[u[1]].games
                  /\ u[3] \in DOMAIN st[u[1]].games[u[2]].sheets}}

\* The directories and the file paths a run writes when every call succeeds.
TreeDirs(st) == {dl.path : dl \in WorkItems(st)}

TreePaths(st) ==
    {file_path(dl, SheetFormat[f]) : dl \in WorkItems(st), f \in DOMAIN SheetFormat}

\* The output tree a successful run leaves: where two sheets have one path
\* the file holds the bytes of one of them, here the one sent last.
TreeOf(st) ==
    [p \in TreePaths(st) |->
        LET ids == {dl.sheet.id : dl \in {d \in WorkItems(st) :
                        \E f \in DOMAIN SheetFormat : file_path(d, SheetFormat[f]) = p}}
        IN  CHOOSE id \in ids : \A other \in ids : other <= id]

\* The sites of at most as many sheets as there are tasks.
RerunSites == {st \in Sites : Cardinality(SheetIds(st)) <= THREAD_COUNT}

\* A second run of the program over the tree its first, successful run left.
InitRerun ==
    /\ site \in RerunSites
    /\ dirs = TreeDirs(site)
    /\ files = TreeOf(site)
    /\ doc = NoDoc
    /\ out = NoOut
    /\ NotStarted

SpecRerun == InitRerun /\ [][Next]_vars

\* C12: a second run over the output tree of a successful first run leaves
\* the set of file paths (and so the number of files) as it was: every
\* download that succeeds overwrites the file of its path in place, and no
\* file is added or renamed.
C12_RerunKeepsPaths ==
    /\ DOMAIN files = TreePaths(site)
    /\ dirs = TreeDirs(site)
    /\ \A id \in DOMAIN reported : reported[id] = 1 =>
          \A f \in DOMAIN SheetFormat :
             \E dl \in WorkItems(site) :
                /\ dl.sheet.id = id
                /\ file_path(dl, SheetFormat[f]) \in DOMAIN files

\* Witness of C12: the second run has downloaded every sheet again and its
\* pool has completed.
C12_Witness ==
    /\ PoolCompleted
    /\ faults = 0
    /\ DOMAIN reported # {}
    /\ \A id \in DOMAIN reported : reported[id] = 1
    /\ DOMAIN files = TreePaths(site)

(* ------------------------------- C13 ----------------------------------- *)

\* Every sheet of the site has been downloaded in all formats and no call
\* of Sheet::download has failed.
AllDownloaded ==
    /\ faults = 0
    /\ \A id \in SheetIds(site) : reported[id] = 1

\* C13: once the pool has completed with every download successful, the
\* output tree holds exactly 3 files per sheet of the catalog (3 * S in
\* all), the file of sheet s of game g of series r in format f being
\* ./downloads/<sanitized r>/<sanitized g>/<sanitized s>.<f in lowercase>.
C13_ThreeFilesPerSheet ==
    (PoolCompleted /\ AllDownloaded) =>
        /\ Cardinality(DOMAIN files) = Len(SheetFormat) * Cardinality(SheetIds(site))
        /\ \A dl \in WorkItems(site) : \A f \in DOMAIN SheetFormat :
              /\ file_path(dl, SheetFormat[f]) \in DOMAIN files
              /\ files[file_path(dl, SheetFormat[f])] = dl.sheet.id

(* --------------------------- the parsers alone -------------------------- *)

\* All sequences of at most n elements of S.
SeqsUpTo(S, n) == UNION {[1..k -> S] : k \in 0..n}

\* The nodes a root page is made of: series anchors, an anchor that names
\* a place on a series page, anchors to other pages, an anchor without
\* href, a tag that is no anchor, and text.
RootNodes ==
    {Tag("a", <<SeriesPrefix, "mario">>, "Mario"),
     Tag("a", <<SeriesPrefix, "zelda">>, "Zelda"),
     Tag("a", <<SeriesPrefix, "mario", "#", "games">>, "Mario"),
     Tag("a", <<"/browse/games/", "mario">>, "Mario"),
     Tag("a", <<"#", "top">>, "Top"),
     Tag("a", NoHref, "Menu"),
     Tag("link", <<SeriesPrefix, "mario">>, ""),
     Raw("Mario")}

RootDocs == {[kind |-> "root", body |-> nodes] : nodes \in SeqsUpTo(RootNodes, MaxNodes)}

\* The children of a top-level element by kind, and the element of position
\* e built from the kinds of its children: the row at position c gets the
\* id attribute "sheet" followed by 10 * e + c.
ChildKinds == {"sheet", "header", "div"}

ChildOf(kind, n) ==
    [name  |-> IF kind = "div" THEN "div" ELSE "li",
     class |-> IF kind = "header" THEN "tableList-row--header" ELSE "tableList-row--sheet",
     id    |-> IF kind = "header" THEN <<>> ELSE IdPrefix \o Decimal(n),
     title |-> SheetNames[n % 10]]

\* A top-level element as its class, whether it has an h3, and the kinds of
\* its children: game sections of any children, a game section without
\* heading, and elements that are no game section.
SectionShapes ==
    {[class |-> "game", titled |-> TRUE, kinds |-> ks] : ks \in SeqsUpTo(ChildKinds, MaxRows)}
        \cup {[class |-> "game", titled |-> FALSE, kinds |-> <<>>],
              [class |-> "list", titled |-> TRUE, kinds |-> <<"sheet">>],
              [class |-> "list", titled |-> FALSE, kinds |-> <<>>]}

SectionOf(shape, e) ==
    Section(shape.class,
            IF shape.titled THEN <<GameNames[e]>> ELSE <<>>,
            [c \in DOMAIN shape.kinds |-> ChildOf(shape.kinds[c], 10 * e + c)])

SerieDocs ==
    {[kind |-> "serie", body |-> [e \in DOMAIN shapes |-> SectionOf(shapes[e], e)]] :
        shapes \in SeqsUpTo(SectionShapes, MaxSections)}

\* The characters that follow the prefix of an id attribute, the values at
\* the ends of the range of i32, and attributes shorter than the prefix.
IdChars == {"0", "1", "7", "-", "+", "x"}

EdgeRemainders ==
    {<<"2", "1", "4", "7", "4", "8", "3", "6", "4", "7">>,
     <<"2", "1", "4", "7", "4", "8", "3", "6", "4", "8">>,
     <<"-", "2", "1", "4", "7", "4", "8", "3", "6", "4", "8">>,
     <<"-", "2", "1", "4", "7", "4", "8", "3", "6", "4", "9">>}

IdAttributes ==
    {IdPrefix \o rest : rest \in SeqsUpTo(IdChars, MaxIdLen) \cup EdgeRemainders}
        \cup {<<>>, <<"r", "o", "w">>, <<"r", "o", "w", "-", "1", "7">>}

RowDocs == {[kind |-> "row", body |-> SheetRow(id, "Title")] : id \in IdAttributes}

\* The variables of the run of main(), which a parse on its own leaves alone.
runVars ==
    <<site, mainPc, series, serieIdx, gameIdx, queue, txAlive, tasks, pool, exitCode, dirs,
      enqueued, dequeued, attempts, files, reported, crawlError, faults, fetched>>

\* A result, and the lack of one after a panic.
Parsed(value) == [status |-> "ok", value |-> value]

Panicked == [status |-> "panic", value |-> <<>>]

\* A Serie as Serie::parse returns it, before populate_games.
BlankSerie == [name |-> "Mario", url |-> <<Host, SeriesPrefix, "mario">>, games |-> <<>>]

\* fetch_series on the nodes of a root page.
ParseRoot ==
    /\ doc.kind = "root"
    /\ out = NoOut
    /\ out' = Parsed(fetch_series(doc.body))
    /\ UNCHANGED <<doc, runVars>>

\* Serie::populate_games on the elements of a series page.
ParseSerie ==
    /\ doc.kind = "serie"
    /\ out = NoOut
    /\ out' = IF PopulatePanics(doc.body)
              THEN Panicked
              ELSE Parsed(populate_games(BlankSerie, doc.body).games)
    /\ UNCHANGED <<doc, runVars>>

\* Sheet::parse on a sheet row.
ParseRow ==
    /\ doc.kind = "row"
    /\ out = NoOut
    /\ out' = IF SheetPanics(doc.body) THEN Panicked ELSE Parsed(SheetParse(doc.body))
    /\ UNCHANGED <<doc, runVars>>

ParseInit ==
    /\ site = <<>>
    /\ dirs = {}
    /\ files = [p \in {} |-> 0]
    /\ doc \in RootDocs \cup SerieDocs \cup RowDocs
    /\ out = NoOut
    /\ NotStarted

ParseNext == ParseRoot \/ ParseSerie \/ ParseRow

ParseSpec == ParseInit /\ [][ParseNext]_vars

(* ------------------------------- C14 ----------------------------------- *)

\* An anchor whose href starts with /browse/series/ and holds no '#'.
Qualifying(node) ==
    /\ node.node = "tag"
    /\ node.name = "a"
    /\ Len(node.href) >= 1
    /\ node.href[1] = SeriesPrefix
    /\ \A k \in DOMAIN node.href : node.href[k] # "#"

\* The qualifying anchors of a page, in document order.
RECURSIVE QualifyingIn(_)
QualifyingIn(nodes) ==
    IF nodes = <<>> THEN <<>>
    ELSE IF Qualifying(Head(nodes)) THEN <<Head(nodes)>> \o QualifyingIn(Tail(nodes))
    ELSE QualifyingIn(Tail(nodes))

\* C14: of a root page with K qualifying anchors among M other ones,
\* fetch_series returns exactly K series, those of the qualifying anchors
\* in document order.
C14_FilterKeepsSeries ==
    (doc.kind = "root" /\ out.status # "none") =>
        LET anchors == QualifyingIn(doc.body)
        IN  /\ out.status = "ok"
            /\ Len(out.value) = Len(anchors)
            /\ \A k \in DOMAIN anchors :
                  /\ out.value[k].name = anchors[k].text
                  /\ out.value[k].url = <<Host>> \o anchors[k].href
                  /\ out.value[k].games = <<>>

\* Witness of C14: a page of two series anchors with an anchor to a place on
\* a series page between them has been parsed into the two series.
C14_Witness ==
    /\ doc.kind = "root"
    /\ Len(doc.body) = 3
    /\ Qualifying(doc.body[1])
    /\ contains(doc.body[2].href, "#")
    /\ Qualifying(doc.body[3])
    /\ doc.body[1] # doc.body[3]
    /\ out.status = "ok"
    /\ Len(out.value) = 2

(* ------------------------------- C15 ----------------------------------- *)

\* The game containers of a series page and the sheet rows a container
\* holds, in document order.
RECURSIVE GameContainers(_)
GameContainers(page) ==
    IF page = <<>> THEN <<>>
    ELSE IF Head(page).class = "game" THEN <<Head(page)>> \o GameContainers(Tail(page))
    ELSE GameContainers(Tail(page))

RECURSIVE RowsHeld(_)
RowsHeld(children) ==
    IF children = <<>> THEN <<>>
    ELSE IF Head(children).name = "li" /\ Head(children).class = "tableList-row--sheet"
         THEN <<Head(children)>> \o RowsHeld(Tail(children))
         ELSE RowsHeld(Tail(children))

\* Every game container of the page has a heading.
WellFormed(page) == \A i \in DOMAIN page : page[i].class = "game" => page[i].h3 # <<>>

\* C15: of a series page with G game containers, container i holding S_i
\* sheet rows, populate_games makes exactly G games in document order, game
\* i with exactly the S_i sheets of its container in document order: no
\* sheet goes to another game and none is counted twice.
C15_GamesAndSheets ==
    (doc.kind = "serie" /\ out.status # "none" /\ WellFormed(doc.body)) =>
        LET containers == GameContainers(doc.body)
        IN  /\ out.status = "ok"
            /\ Len(out.value) = Len(containers)
            /\ \A i \in DOMAIN containers :
                  LET rows == RowsHeld(containers[i].children)
                      game == out.value[i]
                  IN  /\ game.name = containers[i].h3[1]
                      /\ Len(game.sheets) = Len(rows)
                      /\ \A k \in DOMAIN rows :
                            /\ IdPrefix \o Decimal(game.sheets[k].id) = rows[k].id
                            /\ game.sheets[k].name = rows[k].title
            /\ \A i, j \in DOMAIN out.value :
                  \A k \in DOMAIN out.value[i].sheets : \A l \in DOMAIN out.value[j].sheets :
                     out.value[i].sheets[k].id = out.value[j].sheets[l].id => (i = j /\ k = l)

\* Witness of C15: a page of two game containers, of two sheet rows and of
\* one sheet row after a header row, has been parsed into two games.
C15_Witness ==
    /\ doc.kind = "serie"
    /\ Len(GameContainers(doc.body)) = 2
    /\ Len(RowsHeld(doc.body[1].children)) = 2
    /\ Len(doc.body[2].children) = 2
    /\ Len(RowsHeld(doc.body[2].children)) = 1
    /\ out.status = "ok"
    /\ Len(out.value) = 2
    /\ Len(out.value[1].sheets) = 2

(* ------------------------------- C17 ----------------------------------- *)

\* The text is one or more decimal digits, and: it is that after a sign.
IsNumeral(chars) == chars # <<>> /\ \A k \in DOMAIN chars : IsDigit(chars[k])

DenotesInteger(chars) ==
    IsNumeral(IF chars # <<>> /\ chars[1] \in {"+", "-"} THEN Tail(chars) ELSE chars)

\* C17: the id of a sheet is the number that follows the 5 characters of the
\* prefix of the row's id attribute; the parse succeeds only when that text
\* denotes a non-negative integer of the 32-bit signed range and is an error
\* otherwise, so that no Sheet has a negative id.
C17_IdIsNonNegative ==
    (doc.kind = "row" /\ out.status # "none") =>
        /\ out.status = "ok" =>
              /\ Len(doc.body.id) > IdPrefixLen
              /\ out.value.id >= 0
              /\ out.value.id <= I32_MAX
        /\ (Len(doc.body.id) <= IdPrefixLen \/ ~DenotesInteger(IdRemainder(doc.body))) =>
              out.status = "panic"

(* ------------------------------- C16 ----------------------------------- *)

\* C16: a task handles one item at a time, one format at a time: it holds
\* an item only between the receive that returned it and the end of its
\* last format (or its own failure), the formats of an item are requested
\* in order by the one task that holds it, each request after the one
\* before it has returned, and only a task that holds no item receives.
C16_PerItemSequencing ==
    /\ [](\A t \in Tasks :
            /\ t.pc = "download" =>
                  /\ t.format \in DOMAIN SheetFormat
                  /\ NumHolding(t.queued_dl.sheet.id) = 1
                  /\ attempts[t.queued_dl.sheet.id] = SubSeq(SheetFormat, 1, t.format - 1)
            /\ t.pc # "download" => t.queued_dl = NoDownload)
    /\ [][/\ attempts' # attempts =>
                \E t \in Tasks :
                   /\ t.pc = "download"
                   /\ attempts' = [attempts EXCEPT ![t.queued_dl.sheet.id] =
                                       Append(@, SheetFormat[t.format])]
                   /\ (\A u \in BagToSet(pool') : ~Holds(u, t.queued_dl.sheet.id)) =>
                         \/ attempts'[t.queued_dl.sheet.id] = SheetFormat
                         \/ faults' > faults
          /\ dequeued' # dequeued =>
                /\ CopiesIn(Idle, pool) > 0
                /\ CopiesIn(Idle, pool') = CopiesIn(Idle, pool) - 1
                /\ \A t \in Tasks : t.pc = "download" => CopiesIn(t, pool') >= CopiesIn(t, pool)
          /\ attempts' = attempts =>
                \A t \in Tasks : t.pc = "download" => CopiesIn(t, pool') >= CopiesIn(t, pool)
       ]_vars

\* Witness of C16: one task is at the last format of its item, another at
\* the first format of a later item, and a third is about to receive.
C16_Witness ==
    /\ \E t \in Tasks : t.pc = "download" /\ t.format = Len(SheetFormat)
    /\ \E t \in Tasks : t.pc = "download" /\ t.format = 1
    /\ \E t \in Tasks : t.pc = "recv"
    /\ queue # <<>>
    /\ \E id \in DOMAIN reported : reported[id] = 1

(* ------------------------------- C18 ----------------------------------- *)

\* Number of tasks that hold an item (each has one download request in
\* flight or about to be made), and number of tasks that are over.
NumInFlight == BagCardinality([t \in {u \in Tasks : u.pc = "download"} |-> pool[t]])

NumOver == BagCardinality([t \in {u \in Tasks : Terminated(u)} |-> pool[t]])

\* C18: exactly THREAD_COUNT tasks are spawned, one by one by main once the
\* crawl is done; none is created or restarted afterwards, not after a
\* failure either; so at most THREAD_COUNT items are being processed and at
\* most THREAD_COUNT download requests are in flight in any state.
C18_BoundedPool ==
    /\ [](/\ BagCardinality(pool) = tasks
          /\ tasks <= THREAD_COUNT
          /\ tasks > 0 => CrawlDone
          /\ mainPc \in {"join", "exited"} => tasks = THREAD_COUNT
          /\ NumInFlight <= THREAD_COUNT)
    /\ [][/\ BagCardinality(pool') # BagCardinality(pool) =>
                /\ mainPc = "spawn"
                /\ BagCardinality(pool') = BagCardinality(pool) + 1
          /\ NumOver' >= NumOver
          /\ faults' > faults => NumOver' = NumOver + 1
       ]_vars

\* Witness of C18: all THREAD_COUNT tasks hold an item at once while a
\* further item waits in the channel.
C18_Witness ==
    /\ tasks = THREAD_COUNT
    /\ NumInFlight = THREAD_COUNT
    /\ queue # <<>>

(* ------------------------------- C19 ----------------------------------- *)

\* The work-items that exist: in the channel or held by a task.
ItemsAtHand ==
    {queue[k] : k \in DOMAIN queue} \cup {t.queued_dl : t \in {u \in Tasks : u.pc = "download"}}

\* The series and the game that list the sheet of a given id on the site,
\* as positions, and their sanitized names.
GameOf(id) ==
    CHOOSE g \in (DOMAIN site) \X (1..(MaxGames + 1)) :
        /\ g[2] \in DOMAIN site[g[1]].games
        /\ \E k \in DOMAIN site[g[1]].games[g[2]].sheets : site[g[1]].games[g[2]].sheets[k].id = id

SanitizedNamesOf(id) ==
    LET g == GameOf(id)
    IN  <<sanitize(site[g[1]].name), sanitize(site[g[1]].games[g[2]].name)>>

\* C19 as stated: the target directories of different work-items differ, so
\* no two tasks ever write into one target directory at the same time.
C19_DisjointDirectories ==
    \A a, b \in ItemsAtHand : a # b => a.path # b.path

\* C19: the target directory of a work-item is given by the sanitized names
\* of its series and of its game: the items of one game share a directory,
\* items of games that differ in these names have different ones; so two
\* tasks write into one directory at the same time only for sheets whose
\* games have the same sanitized series and game names.
C19_DirectoryPerGame ==
    \A a \in ItemsAtHand : a.path = <<"downloads">> \o SanitizedNamesOf(a.sheet.id)

\* Witness of C19: two tasks are downloading two sheets of one game into the
\* same directory, and both have written a file there.
C19_Witness ==
    \E t, u \in Tasks :
        /\ t.pc = "download" /\ u.pc = "download"
        /\ t.format > 1 /\ u.format > 1
        /\ t.queued_dl.sheet.id # u.queued_dl.sheet.id
        /\ t.queued_dl.path = u.queued_dl.path
        /\ GameOf(t.queued_dl.sheet.id) = GameOf(u.queued_dl.sheet.id)

(* ------------------------------- C20 ----------------------------------- *)

\* The file a task that holds an item is about to create and write.
Target(t) == file_path(t.queued_dl, SheetFormat[t.format])

\* C20: different work-items have different file paths in every format, so
\* no two tasks create or write one file path at the same time, and a file
\* written for one sheet is never overwritten by the download of another.
C20_NoFileRace ==
    /\ \A t, u \in Tasks :
          (/\ t.pc = "download" /\ u.pc = "download"
           /\ t.queued_dl.sheet.id # u.queued_dl.sheet.id) => Target(t) # Target(u)
    /\ \A dl \in WorkItems(site) :
          reported[dl.sheet.id] = 1 =>
             \A f \in DOMAIN SheetFormat :
                /\ file_path(dl, SheetFormat[f]) \in DOMAIN files
                /\ files[file_path(dl, SheetFormat[f])] = dl.sheet.id

====
